---- MODULE Spec2Model ----
(***************************************************************************)
(* Model of the `init` and `diff` commands of src/instructlab/lab.py.      *)
(* One behaviour is one invocation of one command.  The external           *)
(* collaborators (Repo.clone_from, get_taxonomy_diff, read_taxonomy, the   *)
(* user answering prompts, the filesystem) are nondeterministic.           *)
(***************************************************************************)
EXTENDS Integers, Sequences, FiniteSets, TLC

VARIABLES
    cmd,                 \* the command invoked: "init" or "diff"
    pc,                  \* position inside the command function
    interactive,         \* init: --interactive/--non-interactive
    model_path,          \* init: --model-path (local variable, reassigned)
    taxonomy_path,       \* init/diff: --taxonomy-path (local, reassigned)
    taxonomy_base,       \* init/diff: --taxonomy-base
    min_taxonomy,        \* init: --min-taxonomy
    quiet,               \* diff: --quiet
    clone_taxonomy_repo, \* init: local flag
    taxonomy_contents,   \* init: local, result of os.listdir
    config_file,         \* the file config.DEFAULT_CONFIG: <<>> or <<cfg>>
    config_at_start,     \* the same file as it was when the process started
    taxonomy_dir,        \* the directory taxonomy_path names on disk
    existing_dirs,       \* the models directories that exist on disk
    is_file,             \* diff: os.path.isfile(taxonomy_path)
    trace,               \* everything the command emitted, asked and called
    clone_calls,         \* keyword arguments of each Repo.clone_from call
    exit_code,           \* -1 while running, else the process exit code
    unhandled            \* "none", or the exception that left the command

vars == <<cmd, pc, interactive, model_path, taxonomy_path, taxonomy_base,
          min_taxonomy, quiet, clone_taxonomy_repo, taxonomy_contents,
          config_file, config_at_start, taxonomy_dir, existing_dirs, is_file,
          trace, clone_calls, exit_code, unhandled>>

----------------------------------------------------------------------------
(* Bounds and input domains *)

\* longest list get_taxonomy_diff returns in the model
MaxChanged == 2

\* names of changed taxonomy files
FileNames == {<<"a.yaml">>, <<"b.yaml">>}

RECURSIVE SeqsUpTo(_, _)
SeqsUpTo(S, n) ==
    IF n = 0 THEN {<<>>}
    ELSE LET shorter == SeqsUpTo(S, n - 1)
         IN  shorter \cup {Append(s, x) : s \in shorter, x \in S}

\* the lists get_taxonomy_diff may return
ChangedLists == SeqsUpTo(FileNames, MaxChanged)

\* A path is its sequence of components; "/" first means absolute,
\* "~" first means relative to the home directory, anything else is
\* relative to the current directory.
TaxPaths == {<<"taxonomy">>, <<"/", "tax">>, <<"~", "tax">>}

ModelPaths == {<<"models", "m.gguf">>, <<"/", "models", "m">>,
               <<"~", "models", "m">>}

Bases == {"origin/main", "upstream/main"}

\* exception kinds the commands deal with
Failures == {"GitError", "YAMLError", "SystemExit"}

\* exit codes a SystemExit raised by a collaborator may carry
ExitCodes == {0, 1}

----------------------------------------------------------------------------
(* Pure helpers *)

Ev(e, a) == [ev |-> e, arg |-> a]

SelectEv(name) == SelectSeq(trace, LAMBDA e : e.ev = name)

Count(name) == Len(SelectEv(name))

IsAbsolute(p) == p # <<>> /\ Head(p) = "/"

\* utils.expand_path: expands the path to an absolute one
expand_path(p) ==
    IF p = <<>> THEN <<"/", "cwd">>
    ELSE IF Head(p) = "/" THEN p
    ELSE IF Head(p) = "~" THEN <<"/", "home">> \o Tail(p)
    ELSE <<"/", "cwd">> \o p

\* os.path.dirname
dirname(p) == IF p = <<>> THEN <<>> ELSE SubSeq(p, 1, Len(p) - 1)

\* os.path.exists on a models directory
exists(d) == d \in existing_dirs

\* os.listdir(taxonomy_path), FileNotFoundError giving []
listdir(dirstate) == IF dirstate = "nonempty" THEN <<"README.md">> ELSE <<>>

----------------------------------------------------------------------------
(* Initial states: one command line and one state of the disk *)

\* a configuration file left by an earlier run
OldCfg ==
    [chat_model |-> <<"/", "old", "m">>,
     generate_model |-> <<"/", "old", "m">>,
     serve_model_path |-> <<"/", "old", "m">>,
     generate_taxonomy_path |-> <<"/", "old", "tax">>,
     generate_taxonomy_base |-> "origin/main"]

ModelDirs == {dirname(p) : p \in ModelPaths}

InitCommand ==
    /\ cmd = "init"
    /\ interactive \in BOOLEAN
    /\ model_path \in ModelPaths
    /\ taxonomy_path \in TaxPaths
    /\ taxonomy_base \in Bases
    /\ min_taxonomy \in BOOLEAN
    /\ quiet = FALSE
    /\ is_file = FALSE
    /\ config_file \in {<<>>, <<OldCfg>>}
    /\ taxonomy_dir \in {"missing", "empty", "nonempty"}
    /\ existing_dirs \in SUBSET ModelDirs

DiffCommand ==
    /\ cmd = "diff"
    /\ interactive = FALSE
    /\ model_path = <<>>
    /\ taxonomy_path \in TaxPaths \cup {<<>>}
    /\ taxonomy_base \in Bases \cup {""}
    /\ min_taxonomy = FALSE
    /\ quiet \in BOOLEAN
    /\ is_file \in BOOLEAN
    /\ config_file = <<OldCfg>>
    /\ taxonomy_dir = "nonempty"
    /\ existing_dirs = {}

Init ==
    /\ InitCommand \/ DiffCommand
    /\ pc = "start"
    /\ clone_taxonomy_repo = FALSE
    /\ taxonomy_contents = <<>>
    /\ config_at_start = config_file
    /\ trace = <<>>
    /\ clone_calls = <<>>
    /\ exit_code = -1
    /\ unhandled = "none"

----------------------------------------------------------------------------
(* init *)

\* the decline is ignored and init carries on
AfterOverwriteConfirm_Ignored(overwrite) == "welcome"

\* where init continues after the overwrite confirmation
AfterOverwriteConfirm(overwrite) == IF ~overwrite THEN "done" ELSE "welcome"

\* lines 119-126, the confirmation is asked
InitConfirmOverwrite ==
    /\ cmd = "init" /\ pc = "start"
    /\ interactive /\ config_file # <<>>
    /\ \E overwrite \in BOOLEAN :
          /\ trace' = Append(trace,
                 Ev("confirm", <<"overwrite", IF overwrite THEN "y" ELSE "n">>))
          /\ pc' = AfterOverwriteConfirm(overwrite)
          /\ exit_code' = IF AfterOverwriteConfirm(overwrite) = "done"
                          THEN 0 ELSE exit_code
    /\ clone_taxonomy_repo' = TRUE
    /\ UNCHANGED <<cmd, interactive, model_path, taxonomy_path, taxonomy_base,
                   min_taxonomy, quiet, taxonomy_contents, config_file,
                   config_at_start, taxonomy_dir, existing_dirs, is_file,
                   clone_calls, unhandled>>

\* lines 119-121, no confirmation is needed
InitNoConfirm ==
    /\ cmd = "init" /\ pc = "start"
    /\ ~(interactive /\ config_file # <<>>)
    /\ clone_taxonomy_repo' = TRUE
    /\ pc' = IF interactive THEN "welcome" ELSE "listdir"
    /\ UNCHANGED <<cmd, interactive, model_path, taxonomy_path, taxonomy_base,
                   min_taxonomy, quiet, taxonomy_contents, config_file,
                   config_at_start, taxonomy_dir, existing_dirs, is_file,
                   trace, clone_calls, exit_code, unhandled>>

\* lines 127-137
InitPromptTaxonomy ==
    /\ cmd = "init" /\ pc = "welcome"
    /\ \E answer \in TaxPaths : taxonomy_path' = expand_path(answer)
    /\ trace' = trace \o <<Ev("echo", <<"Welcome to InstructLab ilab.">>),
                          Ev("echo", <<"Please provide the following values">>),
                          Ev("prompt", <<"taxonomy">>)>>
    /\ pc' = "listdir"
    /\ UNCHANGED <<cmd, interactive, model_path, taxonomy_base, min_taxonomy,
                   quiet, clone_taxonomy_repo, taxonomy_contents, config_file,
                   config_at_start, taxonomy_dir, existing_dirs, is_file,
                   clone_calls, exit_code, unhandled>>

\* line 145: the clone confirmation is asked
AsksCloneConfirm(contents, inter) == contents = <<>> /\ inter

\* the directory listing is not consulted
CloneDecision_IgnoresContents(contents, inter, answer, current) ==
    IF inter THEN answer ELSE current

\* lines 143-148: the new value of clone_taxonomy_repo
CloneDecision(contents, inter, answer, current) ==
    IF contents # <<>> THEN FALSE
    ELSE IF inter THEN answer
    ELSE current

\* lines 139-148
InitListdir ==
    /\ cmd = "init" /\ pc = "listdir"
    /\ taxonomy_contents' = listdir(taxonomy_dir)
    /\ \E answer \in BOOLEAN :
          /\ clone_taxonomy_repo' =
                 CloneDecision(taxonomy_contents', interactive, answer,
                               clone_taxonomy_repo)
          /\ trace' = IF AsksCloneConfirm(taxonomy_contents', interactive)
                      THEN Append(trace,
                               Ev("confirm", <<"clone", IF answer THEN "y" ELSE "n">>))
                      ELSE trace
    /\ pc' = "clone"
    /\ UNCHANGED <<cmd, interactive, model_path, taxonomy_path, taxonomy_base,
                   min_taxonomy, quiet, config_file, config_at_start,
                   taxonomy_dir, existing_dirs, is_file, clone_calls,
                   exit_code, unhandled>>

\* the two depths are swapped
clone_depth_Swapped(min) == IF ~min THEN 1 ELSE 0

\* line 153; Python's False is the integer 0
clone_depth(min) == IF ~min THEN 0 ELSE 1

\* lines 155-161: the arguments of Repo.clone_from
CloneArgs ==
    [to_path |-> taxonomy_path,
     branch |-> "main",
     recurse_submodules |-> TRUE,
     depth |-> clone_depth(min_taxonomy)]

\* line 151, nothing to clone
InitSkipClone ==
    /\ cmd = "init" /\ pc = "clone"
    /\ ~clone_taxonomy_repo
    /\ pc' = "model"
    /\ UNCHANGED <<cmd, interactive, model_path, taxonomy_path, taxonomy_base,
                   min_taxonomy, quiet, clone_taxonomy_repo, taxonomy_contents,
                   config_file, config_at_start, taxonomy_dir, existing_dirs,
                   is_file, trace, clone_calls, exit_code, unhandled>>

\* lines 151-161, the clone succeeds
InitCloneOk ==
    /\ cmd = "init" /\ pc = "clone"
    /\ clone_taxonomy_repo
    /\ trace' = trace \o <<Ev("echo", <<"Cloning">>),
                          Ev("clone_from", <<"ok">>)>>
    /\ clone_calls' = Append(clone_calls, CloneArgs)
    /\ taxonomy_dir' = "nonempty"
    /\ pc' = "model"
    /\ UNCHANGED <<cmd, interactive, model_path, taxonomy_path, taxonomy_base,
                   min_taxonomy, quiet, clone_taxonomy_repo, taxonomy_contents,
                   config_file, config_at_start, existing_dirs, is_file,
                   exit_code, unhandled>>

\* the GitError is reported but init carries on
InitCloneGitError_Swallowed ==
    /\ cmd = "init" /\ pc = "clone"
    /\ clone_taxonomy_repo
    /\ trace' = trace \o <<Ev("echo", <<"Cloning">>),
                          Ev("clone_from", <<"GitError">>),
                          Ev("secho", <<"Failed to clone taxonomy repo">>),
                          Ev("secho", <<"Please make sure to manually run git clone">>)>>
    /\ clone_calls' = Append(clone_calls, CloneArgs)
    /\ pc' = "model"
    /\ UNCHANGED <<cmd, interactive, model_path, taxonomy_path, taxonomy_base,
                   min_taxonomy, quiet, clone_taxonomy_repo, taxonomy_contents,
                   config_file, config_at_start, taxonomy_dir, existing_dirs,
                   is_file, exit_code, unhandled>>

\* lines 151-165, the clone raises GitError
InitCloneGitError ==
    /\ cmd = "init" /\ pc = "clone"
    /\ clone_taxonomy_repo
    /\ trace' = trace \o <<Ev("echo", <<"Cloning">>),
                          Ev("clone_from", <<"GitError">>),
                          Ev("secho", <<"Failed to clone taxonomy repo">>),
                          Ev("secho", <<"Please make sure to manually run git clone">>)>>
    /\ clone_calls' = Append(clone_calls, CloneArgs)
    /\ exit_code' = 1
    /\ pc' = "done"
    /\ UNCHANGED <<cmd, interactive, model_path, taxonomy_path, taxonomy_base,
                   min_taxonomy, quiet, clone_taxonomy_repo, taxonomy_contents,
                   config_file, config_at_start, taxonomy_dir, existing_dirs,
                   is_file, unhandled>>

\* lines 154-162: the clone raises something `except GitError` lets through.
\* An uncaught exception ends the interpreter with status 1 and a traceback,
\* an uncaught SystemExit with the status it carries.
InitCloneEscape ==
    /\ cmd = "init" /\ pc = "clone"
    /\ clone_taxonomy_repo
    /\ \E kind \in Failures \ {"GitError"} :
          /\ trace' = trace \o <<Ev("echo", <<"Cloning">>),
                                Ev("clone_from", <<kind>>)>>
          /\ unhandled' = kind
          /\ exit_code' \in IF kind = "SystemExit" THEN ExitCodes ELSE {1}
    /\ clone_calls' = Append(clone_calls, CloneArgs)
    /\ pc' = "done"
    /\ UNCHANGED <<cmd, interactive, model_path, taxonomy_path, taxonomy_base,
                   min_taxonomy, quiet, clone_taxonomy_repo, taxonomy_contents,
                   config_file, config_at_start, taxonomy_dir, existing_dirs,
                   is_file>>

\* lines 167-172, the model path is asked
InitPromptModel ==
    /\ cmd = "init" /\ pc = "model"
    /\ interactive /\ exists(dirname(model_path))
    /\ \E answer \in ModelPaths : model_path' = expand_path(answer)
    /\ trace' = Append(trace, Ev("prompt", <<"model">>))
    /\ pc' = "write"
    /\ UNCHANGED <<cmd, interactive, taxonomy_path, taxonomy_base,
                   min_taxonomy, quiet, clone_taxonomy_repo, taxonomy_contents,
                   config_file, config_at_start, taxonomy_dir, existing_dirs,
                   is_file, clone_calls, exit_code, unhandled>>

\* lines 167-169, the model path is not asked
InitNoModelPrompt ==
    /\ cmd = "init" /\ pc = "model"
    /\ ~(interactive /\ exists(dirname(model_path)))
    /\ pc' = "write"
    /\ UNCHANGED <<cmd, interactive, model_path, taxonomy_path, taxonomy_base,
                   min_taxonomy, quiet, clone_taxonomy_repo, taxonomy_contents,
                   config_file, config_at_start, taxonomy_dir, existing_dirs,
                   is_file, trace, clone_calls, exit_code, unhandled>>

\* serve.model_path keeps a stale value
NewConfig_StaleServe(mp, tp, tb) ==
    [chat_model |-> mp,
     generate_model |-> mp,
     serve_model_path |-> <<"/", "old", "m">>,
     generate_taxonomy_path |-> tp,
     generate_taxonomy_base |-> tb]

\* lines 174-179: the configuration init persists
NewConfig(mp, tp, tb) ==
    [chat_model |-> mp,
     generate_model |-> mp,
     serve_model_path |-> mp,
     generate_taxonomy_path |-> tp,
     generate_taxonomy_base |-> tb]

\* lines 173-184
InitWrite ==
    /\ cmd = "init" /\ pc = "write"
    /\ config_file' = <<NewConfig(model_path, taxonomy_path, taxonomy_base)>>
    /\ trace' = trace \o <<Ev("echo", <<"Generating config">>),
                          Ev("write_config", <<>>),
                          Ev("echo", <<"Initialization completed successfully">>)>>
    /\ exit_code' = 0
    /\ pc' = "done"
    /\ UNCHANGED <<cmd, interactive, model_path, taxonomy_path, taxonomy_base,
                   min_taxonomy, quiet, clone_taxonomy_repo, taxonomy_contents,
                   config_at_start, taxonomy_dir, existing_dirs, is_file,
                   clone_calls, unhandled>>

InitNext ==
    \/ InitConfirmOverwrite
    \/ InitNoConfirm
    \/ InitPromptTaxonomy
    \/ InitListdir
    \/ InitSkipClone
    \/ InitCloneOk
    \/ InitCloneGitError
    \/ InitCloneEscape
    \/ InitPromptModel
    \/ InitNoModelPrompt
    \/ InitWrite

----------------------------------------------------------------------------
(* diff *)

\* the configuration the command group loaded into ctx.obj
LoadedConfig == config_file[1]

\* lines 218-225
DiffResolve ==
    /\ cmd = "diff" /\ pc = "start"
    /\ taxonomy_base' = IF taxonomy_base = ""
                        THEN LoadedConfig.generate_taxonomy_base
                        ELSE taxonomy_base
    /\ taxonomy_path' = IF taxonomy_path = <<>>
                        THEN LoadedConfig.generate_taxonomy_path
                        ELSE taxonomy_path
    /\ pc' = "print"
    /\ UNCHANGED <<cmd, interactive, model_path, min_taxonomy, quiet,
                   clone_taxonomy_repo, taxonomy_contents, config_file,
                   config_at_start, taxonomy_dir, existing_dirs, is_file,
                   trace, clone_calls, exit_code, unhandled>>

\* a file is treated like a directory
PrintBranch_NoFileCase(q, isf) == IF q THEN "skip" ELSE "dir"

\* lines 227-231: which branch of the listing block runs
PrintBranch(q, isf) ==
    IF q THEN "skip"
    ELSE IF isf THEN "file"
    ELSE "dir"

\* line 227, quiet: the listing block is skipped
DiffQuietSkip ==
    /\ cmd = "diff" /\ pc = "print"
    /\ PrintBranch(quiet, is_file) = "skip"
    /\ pc' = "validate"
    /\ UNCHANGED <<cmd, interactive, model_path, taxonomy_path, taxonomy_base,
                   min_taxonomy, quiet, clone_taxonomy_repo, taxonomy_contents,
                   config_file, config_at_start, taxonomy_dir, existing_dirs,
                   is_file, trace, clone_calls, exit_code, unhandled>>

\* lines 228-230
DiffEchoFile ==
    /\ cmd = "diff" /\ pc = "print"
    /\ PrintBranch(quiet, is_file) = "file"
    /\ trace' = Append(trace, Ev("echo", taxonomy_path))
    /\ pc' = "validate"
    /\ UNCHANGED <<cmd, interactive, model_path, taxonomy_path, taxonomy_base,
                   min_taxonomy, quiet, clone_taxonomy_repo, taxonomy_contents,
                   config_file, config_at_start, taxonomy_dir, existing_dirs,
                   is_file, clone_calls, exit_code, unhandled>>

\* lines 240-241: one echo per changed file, in order
EchoFiles(files) == [i \in 1..Len(files) |-> Ev("echo", files[i])]

\* lines 232-233 and 240-241, the listing succeeds
DiffListOk ==
    /\ cmd = "diff" /\ pc = "print"
    /\ PrintBranch(quiet, is_file) = "dir"
    /\ \E updated_taxonomy_files \in ChangedLists :
          trace' = Append(trace, Ev("get_taxonomy_diff", <<"ok">>))
                       \o EchoFiles(updated_taxonomy_files)
    /\ pc' = "validate"
    /\ UNCHANGED <<cmd, interactive, model_path, taxonomy_path, taxonomy_base,
                   min_taxonomy, quiet, clone_taxonomy_repo, taxonomy_contents,
                   config_file, config_at_start, taxonomy_dir, existing_dirs,
                   is_file, clone_calls, exit_code, unhandled>>

\* the listing failure is reported but diff goes on to validate
DiffListFail_Continues ==
    /\ cmd = "diff" /\ pc = "print"
    /\ PrintBranch(quiet, is_file) = "dir"
    /\ \E kind \in {"SystemExit", "GitError"} :
          trace' = trace \o <<Ev("get_taxonomy_diff", <<kind>>),
                              Ev("secho", <<"Reading taxonomy failed">>)>>
    /\ pc' = "validate"
    /\ UNCHANGED <<cmd, interactive, model_path, taxonomy_path, taxonomy_base,
                   min_taxonomy, quiet, clone_taxonomy_repo, taxonomy_contents,
                   config_file, config_at_start, taxonomy_dir, existing_dirs,
                   is_file, clone_calls, exit_code, unhandled>>

\* lines 232-239, the listing raises SystemExit or GitError
DiffListFail ==
    /\ cmd = "diff" /\ pc = "print"
    /\ PrintBranch(quiet, is_file) = "dir"
    /\ \E kind \in {"SystemExit", "GitError"} :
          trace' = trace \o <<Ev("get_taxonomy_diff", <<kind>>),
                              Ev("secho", <<"Reading taxonomy failed">>)>>
    /\ exit_code' = 1
    /\ pc' = "done"
    /\ UNCHANGED <<cmd, interactive, model_path, taxonomy_path, taxonomy_base,
                   min_taxonomy, quiet, clone_taxonomy_repo, taxonomy_contents,
                   config_file, config_at_start, taxonomy_dir, existing_dirs,
                   is_file, clone_calls, unhandled>>

\* lines 232-234: the listing raises something the handler lets through
DiffListEscape ==
    /\ cmd = "diff" /\ pc = "print"
    /\ PrintBranch(quiet, is_file) = "dir"
    /\ \E kind \in Failures \ {"SystemExit", "GitError"} :
          /\ trace' = Append(trace, Ev("get_taxonomy_diff", <<kind>>))
          /\ unhandled' = kind
    /\ exit_code' = 1
    /\ pc' = "done"
    /\ UNCHANGED <<cmd, interactive, model_path, taxonomy_path, taxonomy_base,
                   min_taxonomy, quiet, clone_taxonomy_repo, taxonomy_contents,
                   config_file, config_at_start, taxonomy_dir, existing_dirs,
                   is_file, clone_calls>>

\* lines 251-255
ReportSuccess(q) ==
    IF ~q THEN <<Ev("secho", <<"Taxonomy is valid">>)>> ELSE <<>>

\* the failure is reported even when quiet
ReportFailure_Always(q) == <<Ev("secho", <<"Reading taxonomy failed">>)>>

\* lines 245-249
ReportFailure(q) ==
    IF ~q THEN <<Ev("secho", <<"Reading taxonomy failed">>)>> ELSE <<>>

\* lines 242-243 and 251-255, validation passes
DiffValidateOk ==
    /\ cmd = "diff" /\ pc = "validate"
    /\ trace' = Append(trace, Ev("read_taxonomy", <<"ok">>))
                    \o ReportSuccess(quiet)
    /\ exit_code' = 0
    /\ pc' = "done"
    /\ UNCHANGED <<cmd, interactive, model_path, taxonomy_path, taxonomy_base,
                   min_taxonomy, quiet, clone_taxonomy_repo, taxonomy_contents,
                   config_file, config_at_start, taxonomy_dir, existing_dirs,
                   is_file, clone_calls, unhandled>>

\* lines 242-250, validation raises SystemExit or YAMLError
DiffValidateFail ==
    /\ cmd = "diff" /\ pc = "validate"
    /\ \E kind \in {"SystemExit", "YAMLError"} :
          trace' = Append(trace, Ev("read_taxonomy", <<kind>>))
                       \o ReportFailure(quiet)
    /\ exit_code' = 1
    /\ pc' = "done"
    /\ UNCHANGED <<cmd, interactive, model_path, taxonomy_path, taxonomy_base,
                   min_taxonomy, quiet, clone_taxonomy_repo, taxonomy_contents,
                   config_file, config_at_start, taxonomy_dir, existing_dirs,
                   is_file, clone_calls, unhandled>>

\* lines 242-244: validation raises something the handler lets through
DiffValidateEscape ==
    /\ cmd = "diff" /\ pc = "validate"
    /\ \E kind \in Failures \ {"SystemExit", "YAMLError"} :
          /\ trace' = Append(trace, Ev("read_taxonomy", <<kind>>))
          /\ unhandled' = kind
    /\ exit_code' = 1
    /\ pc' = "done"
    /\ UNCHANGED <<cmd, interactive, model_path, taxonomy_path, taxonomy_base,
                   min_taxonomy, quiet, clone_taxonomy_repo, taxonomy_contents,
                   config_file, config_at_start, taxonomy_dir, existing_dirs,
                   is_file, clone_calls>>

DiffNext ==
    \/ DiffResolve
    \/ DiffQuietSkip
    \/ DiffEchoFile
    \/ DiffListOk
    \/ DiffListFail
    \/ DiffListEscape
    \/ DiffValidateOk
    \/ DiffValidateFail
    \/ DiffValidateEscape

----------------------------------------------------------------------------

Next == InitNext \/ DiffNext

Spec == Init /\ [][Next]_vars

----------------------------------------------------------------------------
(* Properties *)

\* what the command wrote with click.echo and click.secho
Output == SelectSeq(trace, LAMBDA e : e.ev \in {"echo", "secho"})

\* the event is somewhere in the trace
Happened(e) == \E i \in 1..Len(trace) : trace[i] = e

\* the outcome of the named external call, "none" if it was not made
Outcome(call) ==
    LET s == SelectEv(call) IN IF s = <<>> THEN "none" ELSE s[1].arg[1]

\* the questions of the named kind asked so far
Asked(kind, what) ==
    SelectSeq(trace, LAMBDA e : e.ev = kind /\ e.arg[1] = what)

\* C1: a quiet diff emits nothing, whether the path is a file or a
\* directory and whatever validation does, and ends with exit code 0 when
\* validation passes and 1 when it fails.
C1_QuietDiffSilent ==
    (cmd = "diff" /\ quiet) =>
        /\ Output = <<>>
        /\ pc = "done" =>
              /\ Count("read_taxonomy") = 1
              /\ Outcome("read_taxonomy") = "ok" => exit_code = 0
              /\ Outcome("read_taxonomy") \in Failures => exit_code = 1

C1_Witness ==
    /\ cmd = "diff" /\ quiet /\ pc = "done"
    /\ Outcome("read_taxonomy") \in Failures
    /\ exit_code = 1
    /\ Output = <<>>

\* C2: every path field of a configuration init persists is an absolute,
\* expanded path.
C2_PersistedPathsAbsolute ==
    (cmd = "init" /\ Count("write_config") > 0) =>
        /\ IsAbsolute(config_file[1].chat_model)
        /\ IsAbsolute(config_file[1].generate_model)
        /\ IsAbsolute(config_file[1].serve_model_path)
        /\ IsAbsolute(config_file[1].generate_taxonomy_path)

\* C3: an interactive init whose overwrite confirmation is declined ends
\* at once: it asks no taxonomy or model path, never clones, and leaves
\* the configuration file as it was.
C3_DeclineNoSideEffects ==
    (cmd = "init" /\ Happened(Ev("confirm", <<"overwrite", "n">>))) =>
        /\ pc = "done"
        /\ Count("prompt") = 0
        /\ Count("clone_from") = 0 /\ clone_calls = <<>>
        /\ Count("write_config") = 0
        /\ config_file = config_at_start

C3_Witness ==
    /\ cmd = "init" /\ interactive /\ config_at_start # <<>>
    /\ Happened(Ev("confirm", <<"overwrite", "n">>))
    /\ pc = "done"

\* C4: while the taxonomy directory exists and is non-empty no step of
\* init invokes the clone or asks the clone confirmation.
C4_NoCloneWhenNonEmpty ==
    [][(cmd = "init" /\ taxonomy_dir = "nonempty") =>
          /\ clone_calls' = clone_calls
          /\ Count("clone_from")' = Count("clone_from")
          /\ Asked("confirm", "clone")' = Asked("confirm", "clone")]_vars

C4_Witness ==
    /\ cmd = "init" /\ pc = "done" /\ exit_code = 0
    /\ taxonomy_contents # <<>>
    /\ Count("write_config") = 1
    /\ clone_calls = <<>> /\ Asked("confirm", "clone") = <<>>

\* C5: init never clones twice, and once an interactive init has found the
\* taxonomy directory empty or missing and the user has confirmed the
\* clone, it has invoked the clone exactly once, with branch main,
\* recurse_submodules true, and depth 1 under min-taxonomy, full otherwise.
C5_ConfirmedCloneOnce ==
    /\ Len(clone_calls) <= 1
    /\ Count("clone_from") = Len(clone_calls)
    /\ (/\ cmd = "init" /\ interactive
        /\ Happened(Ev("confirm", <<"clone", "y">>))
        /\ pc \in {"model", "write", "done"}) =>
           /\ taxonomy_contents = <<>>
           /\ Len(clone_calls) = 1
           /\ clone_calls[1].branch = "main"
           /\ clone_calls[1].recurse_submodules = TRUE
           /\ clone_calls[1].depth = IF min_taxonomy THEN 1 ELSE 0

C5_Witness ==
    /\ cmd = "init" /\ interactive /\ min_taxonomy
    /\ Happened(Ev("confirm", <<"clone", "y">>))
    /\ pc = "done" /\ exit_code = 0
    /\ Len(clone_calls) = 1 /\ clone_calls[1].depth = 1

\* C6: an init that reaches the configuration write writes one
\* configuration, whose three model fields equal the final model path and
\* whose taxonomy path and base equal the resolved path and the supplied
\* base, and ends with exit code 0.
C6_ConfigWritten ==
    (cmd = "init" /\ Count("write_config") > 0) =>
        /\ Count("write_config") = 1
        /\ Len(config_file) = 1
        /\ config_file[1].chat_model = model_path
        /\ config_file[1].generate_model = model_path
        /\ config_file[1].serve_model_path = model_path
        /\ config_file[1].generate_taxonomy_path = taxonomy_path
        /\ config_file[1].generate_taxonomy_base = taxonomy_base
        /\ pc = "done" /\ exit_code = 0

C6_Witness ==
    /\ cmd = "init" /\ ~interactive
    /\ taxonomy_contents = <<>>
    /\ Outcome("clone_from") = "ok"
    /\ Count("write_config") = 1
    /\ config_file[1].serve_model_path = <<"/", "models", "m">>
    /\ config_file[1].generate_taxonomy_path = <<"/", "tax">>
    /\ exit_code = 0

\* C7: when the clone fails with a VCS error init reports it and ends with
\* exit code 1, without asking the model path and without writing the
\* configuration file.
C7_CloneFailureTerminal ==
    (cmd = "init" /\ Outcome("clone_from") = "GitError") =>
        /\ pc = "done" /\ exit_code = 1 /\ unhandled = "none"
        /\ Happened(Ev("secho", <<"Failed to clone taxonomy repo">>))
        /\ Asked("prompt", "model") = <<>>
        /\ Count("write_config") = 0
        /\ config_file = config_at_start

C7_Witness ==
    /\ cmd = "init" /\ Outcome("clone_from") = "GitError"
    /\ config_at_start # <<>> /\ config_file = config_at_start
    /\ pc = "done" /\ exit_code = 1

\* some external call of the invocation failed
SomeCallFailed ==
    \E call \in {"clone_from", "get_taxonomy_diff", "read_taxonomy"} :
        Outcome(call) \in Failures

\* C8: every failure of an external call (clone, diff listing, validation;
\* VCS error, YAML error, internal abort), quiet or not, is caught by the
\* command, which ends with exit code 1; none leaves it unhandled.
C8_AllFailuresCaught ==
    SomeCallFailed => (pc = "done" /\ exit_code = 1 /\ unhandled = "none")

\* C9: a non-quiet diff of a single file echoes exactly that path once,
\* never computes the diff list, and then validates exactly once, ending
\* with exit code 0 when validation passes and 1 when it fails.
C9_FileDiff ==
    (cmd = "diff" /\ ~quiet /\ is_file) =>
        /\ Count("get_taxonomy_diff") = 0
        /\ pc \in {"validate", "done"} =>
              SelectEv("echo") = <<Ev("echo", taxonomy_path)>>
        /\ \A i, j \in 1..Len(trace) :
              (trace[i].ev = "read_taxonomy" /\ trace[j].ev = "echo") => j < i
        /\ pc = "done" =>
              /\ Count("read_taxonomy") = 1
              /\ Outcome("read_taxonomy") = "ok" => exit_code = 0
              /\ Outcome("read_taxonomy") \in Failures => exit_code = 1

C9_Witness ==
    /\ cmd = "diff" /\ ~quiet /\ is_file /\ pc = "done"
    /\ SelectEv("echo") = <<Ev("echo", taxonomy_path)>>
    /\ Outcome("read_taxonomy") \in Failures /\ exit_code = 1

\* C10: in a non-quiet diff of a directory a failed diff listing ends the
\* invocation with exit code 1 and without validation.  Every other diff
\* validates exactly once, after all the changed-file output, and
\* prints the success confirmation only after validation has passed.
C10_DiffOrder ==
    cmd = "diff" =>
        /\ Outcome("get_taxonomy_diff") \in Failures =>
              /\ ~quiet /\ ~is_file
              /\ pc = "done" /\ exit_code = 1
              /\ Count("read_taxonomy") = 0
        /\ Count("read_taxonomy") <= 1
        /\ (pc = "done" /\ Outcome("get_taxonomy_diff") \notin Failures) =>
              Count("read_taxonomy") = 1
        /\ \A i, j \in 1..Len(trace) :
              (trace[i].ev = "read_taxonomy" /\ trace[j].ev = "echo") => j < i
        /\ \A j \in 1..Len(trace) :
              trace[j] = Ev("secho", <<"Taxonomy is valid">>) =>
                  \E i \in 1..(j - 1) : trace[i] = Ev("read_taxonomy", <<"ok">>)

C10_Witness ==
    /\ cmd = "diff" /\ ~quiet /\ ~is_file /\ pc = "done"
    /\ Outcome("get_taxonomy_diff") \in {"GitError", "SystemExit"}
    /\ exit_code = 1 /\ Count("read_taxonomy") = 0

====
